---- MODULE Spec2Model ----
(***************************************************************************)
(* Model of the oakd_viewer web service: the job registry of app.py        *)
(* (start_processing, _run_processing, job_events), the completeness check *)
(* of cache.py and the parallel pipeline of processing.py (process_rgb,    *)
(* process_depth, process_imu under asyncio.gather).                       *)
(*                                                                         *)
(* The event loop is single threaded: a handler or a coroutine runs        *)
(* without interruption between two awaits that really suspend.  An        *)
(* `await event_queue.put(...)` on the unbounded asyncio.Queue never       *)
(* suspends, so it is part of the step that contains it.  The extractors   *)
(* run in worker threads (asyncio.to_thread) and interleave freely with    *)
(* the loop and with each other.                                           *)
(***************************************************************************)
EXTENDS Integers, Sequences, FiniteSets, TLC

\* ---- bounds of the model ------------------------------------------------
MaxJobs == 2
ListenJobs == 1
MaxListeners == 2
NumFrames == 1

\* ---- program constants --------------------------------------------------
RgbProgressEvery == 100
DepthProgressEvery == 30
ImuProgressEvery == 1000
imu_downsample == 4

Recordings == {"recA"}
JobIds == 1..MaxJobs
ListenerIds == 1..MaxListeners
Outputs == {"rgb", "depth", "imu"}
Encoded == {"rgb", "depth"}
\* the "ready" answer carries no job_id (app.py 75); job ids start at 1
NoJob == 0
NoExc == <<"none", "none">>

VARIABLES
    jobs,               \* app._jobs: job_id -> [recording_id, done]
    active_recordings,  \* app._active_recordings: recording_id -> job_id
    events,             \* the asyncio.Queue of each job, head first
    task,               \* position of each _run_processing coroutine
    thr,                \* position of each extractor thread of each job
    gexc,               \* first exception seen by asyncio.gather, per job
    files,              \* cache directory: state of each output file
    mcap,               \* cache directory: state of recording.mcap
    listeners,          \* the open event_stream generators
    resp,               \* the response start_processing returns in this step
    emitted,            \* history: terminal-stage events ever put per job
    nextJob,            \* next fresh job id (uuid4 modelled as fresh)
    pre,                \* preprocess.process_one: one run of the pre-processor
    rng,                \* app._range_response: one range request and its answer
    imus,               \* processing.process_imu: the sample loop on one input
    rd,                 \* mcap_reader: one container and what was read from it
    prg,                \* the progress values one stage has passed on
    dep,                \* processing._colorize_depth_frame: one depth frame
    enc,                \* one encoder process and the pipe to its input
    poll                \* preprocess.run: the poll loop

vars == <<jobs, active_recordings, events, task, thr, gexc, files, mcap,
          listeners, resp, emitted, nextJob, pre, rng, imus, rd, prg, dep,
          enc, poll>>

\* the state of the components the web service's handlers never touch
offline == <<pre, rng, imus, rd, prg, dep, enc, poll>>

\* everything but the response in flight
server == <<jobs, active_recordings, events, task, thr, gexc, files, mcap,
            listeners, emitted, nextJob>>

\* ---- cache.py -----------------------------------------------------------
Exists(r, o) == files[r][o] # "absent"

\* a completeness check that asks for finished files, not for files
is_processed_finished(r) ==
    \A o \in {"rgb", "depth", "imu"} : files[r][o] = "complete"

\* a completeness check that looks at the two videos only
is_processed_videos(r) == Exists(r, "rgb") /\ Exists(r, "depth")

is_processed(r) == Exists(r, "rgb") /\ Exists(r, "depth") /\ Exists(r, "imu")

\* ---- events -------------------------------------------------------------
Event(s, d) == [stage |-> s, detail |-> d]

IsTerminal(e) == e.stage \in {"done", "error"}

\* queue.put / put_nowait on the job's queue; emitted keeps the
\* terminal-stage events ever placed in it
PutAll(j, evs) ==
    /\ events' = [events EXCEPT ![j] = @ \o evs]
    /\ emitted' = [emitted EXCEPT ![j] = @ \o SelectSeq(evs, IsTerminal)]

\* ---- helpers over the registry ------------------------------------------
Created(j) == task[j].pc # "none"

NoResponse == [status |-> "none", job_id |-> NoJob, recording_id |-> "-"]

\* a step that is no start-processing request answers no such request
Quiet == resp' = NoResponse

IdleThread == [pc |-> "idle", i |-> 0, exc |-> NoExc]

Launched == [x \in Outputs |-> [IdleThread EXCEPT !.pc = "count"]]

ProgressEvery(x) ==
    IF x = "rgb" THEN RgbProgressEvery
    ELSE IF x = "depth" THEN DepthProgressEvery
    ELSE ImuProgressEvery

\* ---- the components outside the web service's handlers, at rest ---------
PreIdle ==
    [pc |-> "idle", listing |-> {}, mcap_listed |-> "none", need |-> {},
     launched |-> {}, running |-> {}, failed |-> FALSE, uploaded |-> {}]

RngIdle == [pc |-> "idle"]

ImuIdle == [pc |-> "idle"]

RdIdle == [pc |-> "idle"]

PrgIdle == [pc |-> "idle"]

DepIdle == [pc |-> "idle"]

EncIdle == [pc |-> "idle"]

PollIdle == [pc |-> "idle"]

\* the web service right after the module is imported
EmptyRegistry ==
    /\ jobs = [j \in {} |-> 0]
    /\ active_recordings = [r \in {} |-> 0]
    /\ events = [j \in JobIds |-> << >>]
    /\ task = [j \in JobIds |-> [pc |-> "none", recording_id |-> "-"]]
    /\ thr = [j \in JobIds |-> [x \in Outputs |-> IdleThread]]
    /\ gexc = [j \in JobIds |-> NoExc]
    /\ listeners = [l \in ListenerIds |->
                      [st |-> "idle", job |-> NoJob, early |-> FALSE,
                       term |-> 0]]
    /\ resp = NoResponse
    /\ emitted = [j \in JobIds |-> << >>]
    /\ nextJob = 1

\* ... on an empty cache directory
ServerInit ==
    /\ EmptyRegistry
    /\ files = [r \in Recordings |-> [o \in Outputs |-> "absent"]]
    /\ mcap = [r \in Recordings |-> "absent"]

Init ==
    /\ ServerInit
    /\ pre = PreIdle
    /\ rng = RngIdle
    /\ imus = ImuIdle
    /\ rd = RdIdle
    /\ prg = PrgIdle /\ dep = DepIdle /\ enc = EncIdle /\ poll = PollIdle

\* ---- app.start_processing ------------------------------------------------
\* the JSON body returned to the client by the step that handles the
\* request; every other step returns nothing to that client
Response(status, job_id, r) ==
    [status |-> status, job_id |-> job_id, recording_id |-> r]

start_processing(r) ==
    /\ UNCHANGED offline
    /\ IF is_processed(r) THEN
           /\ resp' = Response("ready", NoJob, r)
           /\ UNCHANGED <<jobs, active_recordings, events, task, thr, gexc,
                          files, mcap, listeners, emitted, nextJob>>
       ELSE IF r \in DOMAIN active_recordings THEN
           /\ resp' = Response("processing", active_recordings[r], r)
           /\ UNCHANGED <<jobs, active_recordings, events, task, thr, gexc,
                          files, mcap, listeners, emitted, nextJob>>
       ELSE
           /\ nextJob <= MaxJobs
           /\ LET job_id == nextJob IN
               /\ jobs' = [k \in DOMAIN jobs \cup {job_id} |->
                             IF k = job_id
                             THEN [recording_id |-> r, done |-> FALSE]
                             ELSE jobs[k]]
               /\ active_recordings' =
                     [k \in DOMAIN active_recordings \cup {r} |->
                         IF k = r THEN job_id ELSE active_recordings[k]]
               /\ task' = [task EXCEPT
                             ![job_id] = [pc |-> "created", recording_id |-> r]]
               /\ resp' = Response("processing", job_id, r)
               /\ nextJob' = nextJob + 1
           /\ UNCHANGED <<events, thr, gexc, files, mcap, listeners, emitted>>

\* ---- app._run_processing -------------------------------------------------
\* a finally block that marks the job done and leaves the dedup map alone
FinalizeKeepsDedup(j) ==
    IF j \in DOMAIN jobs
    THEN /\ jobs' = [jobs EXCEPT ![j].done = TRUE]
         /\ UNCHANGED active_recordings
    ELSE UNCHANGED <<jobs, active_recordings>>

\* the finally block (app.py 143-145)
Finalize(j) ==
    IF j \in DOMAIN jobs
    THEN /\ jobs' = [jobs EXCEPT ![j].done = TRUE]
         /\ active_recordings' =
               [k \in DOMAIN active_recordings \ {task[j].recording_id} |->
                   active_recordings[k]]
    ELSE \* _jobs[job_id] raises KeyError before the pop
         UNCHANGED <<jobs, active_recordings>>

\* the except block followed by the finally block
Fail(j, err) ==
    /\ PutAll(j, <<Event("error", err)>>)
    /\ Finalize(j)
    /\ task' = [task EXCEPT ![j].pc = "finished"]

\* lines 94-104, or 94-103 and 123-136 when the MCAP is already cached
TaskStart(j) ==
    /\ task[j].pc = "created"
    /\ LET r == task[j].recording_id
           m == IF mcap[r] = "empty" THEN "absent" ELSE mcap[r]
       IN /\ mcap' = [mcap EXCEPT ![r] = m]
          /\ IF m = "absent"
             THEN /\ PutAll(j, <<Event("download", NoExc)>>)
                  /\ task' = [task EXCEPT ![j].pc = "listing"]
                  /\ UNCHANGED thr
             ELSE /\ PutAll(j, <<Event("processing", NoExc)>>)
                  /\ task' = [task EXCEPT ![j].pc = "gather"]
                  /\ thr' = [thr EXCEPT ![j] = Launched]
    /\ UNCHANGED <<jobs, active_recordings, gexc, files, listeners,
                   nextJob>>
    /\ Quiet
    /\ UNCHANGED offline

\* lines 105-118: s3.list_prefix returns (or raises) and the key is searched
ListingReturns(j, res) ==
    /\ task[j].pc = "listing"
    /\ IF res = "ok"
       THEN /\ PutAll(j, <<Event("download", NoExc)>>)
            /\ task' = [task EXCEPT ![j].pc = "downloading"]
            /\ UNCHANGED <<jobs, active_recordings>>
       ELSE Fail(j, <<"task", res>>)
    /\ UNCHANGED <<thr, gexc, files, mcap, listeners, nextJob>>
    /\ Quiet
    /\ UNCHANGED offline

\* lines 119-136: s3.download_file returns (or raises)
DownloadReturns(j, res) ==
    /\ task[j].pc = "downloading"
    /\ LET r == task[j].recording_id IN
       IF res = "ok"
       THEN /\ mcap' = [mcap EXCEPT ![r] = "present"]
            /\ PutAll(j, <<Event("download", NoExc),
                           Event("processing", NoExc)>>)
            /\ task' = [task EXCEPT ![j].pc = "gather"]
            /\ thr' = [thr EXCEPT ![j] = Launched]
            /\ UNCHANGED <<jobs, active_recordings>>
       ELSE /\ mcap' = [mcap EXCEPT ![r] = res]
            /\ Fail(j, <<"task", "download">>)
            /\ UNCHANGED thr
    /\ UNCHANGED <<gexc, files, listeners, nextJob>>
    /\ Quiet
    /\ UNCHANGED offline

\* ---- processing.py: the extractor threads --------------------------------
\* a thread ends: its future completes, and asyncio.gather keeps the first
\* exception it is handed (return_exceptions is False)
ThreadEnds(j, x, t) ==
    /\ thr' = [thr EXCEPT ![j][x] = t]
    /\ gexc' = [gexc EXCEPT
                  ![j] = IF @ = NoExc /\ t.pc = "failed" THEN t.exc ELSE @]

ProgressEvent(j, x) == PutAll(j, <<Event(x, NoExc)>>)

\* the text of the error raised on an empty channel (32, 131, 182)
ZeroMessage(x) ==
    CASE x = "rgb" -> "No RGB messages found in MCAP"
      [] x = "depth" -> "No depth messages found in MCAP"
      [] x = "imu" -> "No IMU messages found in MCAP"

\* an extractor that starts its encoder before it looks at the count: the
\* encoder has opened its output file when the zero check raises
CountAfterSpawn(j, x, total) ==
    /\ thr[j][x].pc = "count"
    /\ files' = [files EXCEPT ![task[j].recording_id][x] =
                    IF x \in Encoded THEN "partial" ELSE @]
    /\ IF total = 0
       THEN ThreadEnds(j, x, [thr[j][x] EXCEPT !.pc = "failed",
                                               !.exc = <<x, "nomsg">>])
       ELSE /\ thr' = [thr EXCEPT
                         ![j][x].pc = IF x \in Encoded THEN "write" ELSE "iter"]
            /\ UNCHANGED gexc
    /\ UNCHANGED <<jobs, active_recordings, events, task, mcap,
                   listeners, emitted, nextJob>>
    /\ Quiet
    /\ UNCHANGED offline

\* process_rgb 30-48, process_depth 129-154, process_imu 180-189:
\* count_messages, the zero check, and the spawn of the encoder
CountMessages(j, x, total) ==
    /\ thr[j][x].pc = "count"
    /\ IF total = 0
       THEN ThreadEnds(j, x, [thr[j][x] EXCEPT !.pc = "failed",
                                               !.exc = <<x, "nomsg">>])
       ELSE /\ thr' = [thr EXCEPT
                         ![j][x].pc = IF x \in Encoded THEN "write" ELSE "iter"]
            /\ UNCHANGED gexc
    /\ UNCHANGED <<jobs, active_recordings, events, task, files, mcap,
                   listeners, emitted, nextJob>>
    /\ Quiet
    /\ UNCHANGED offline

\* one iteration of the frame loop of process_rgb (50-53) or process_depth
\* (157-165).  A frame is larger than the pipe buffer, so stdin.write returns
\* once the encoder has read the frame; the encoder then opens (truncates)
\* its output file.  The encoder's stderr is a pipe that nobody reads before
\* proc.wait() has returned: an encoder whose diagnostics fill that pipe
\* blocks for good, and so does the thread at its next write or wait.
\*   "raised": the decode (depth) or the write (rgb) raises; the finally
\*             block closes stdin and goes on to proc.wait()
\*   "full":   the frame is read, then the encoder blocks on stderr
WriteFrame(j, x, res) ==
    LET t == thr[j][x]
        r == task[j].recording_id
    IN
    /\ x \in Encoded
    /\ t.pc = "write"
    /\ IF res = "raised"
       THEN /\ thr' = [thr EXCEPT
                         ![j][x].pc = "wait",
                         ![j][x].exc = <<x, IF x = "depth" THEN "decode"
                                                           ELSE "write">>]
            /\ UNCHANGED <<files, events, emitted>>
       ELSE /\ files' = [files EXCEPT ![r][x] = "partial"]
            /\ IF t.i % ProgressEvery(x) = 0
               THEN ProgressEvent(j, x)
               ELSE UNCHANGED <<events, emitted>>
            /\ thr' = [thr EXCEPT
                 ![j][x].i = t.i + 1,
                 ![j][x].pc = IF res = "full" THEN "blocked"
                              ELSE IF t.i + 1 = NumFrames THEN "wait"
                              ELSE "write"]
    /\ UNCHANGED <<jobs, active_recordings, task, gexc, mcap, listeners,
                   nextJob>>
    /\ Quiet
    /\ UNCHANGED offline

\* proc.wait() returns: the encoder saw end of input and exited with rc
\* (res = "full": its last diagnostics fill stderr and it never exits);
\* then lines 58-62 / 170-174
EncoderExits(j, x, rc, res) ==
    LET t == thr[j][x]
        r == task[j].recording_id
    IN
    /\ x \in Encoded
    /\ t.pc = "wait"
    /\ IF res = "full"
       THEN /\ thr' = [thr EXCEPT ![j][x].pc = "blocked"]
            /\ UNCHANGED <<gexc, files, events, emitted>>
       ELSE /\ files' = [files EXCEPT
                           ![r][x] = IF rc = 0 THEN "complete" ELSE @]
            /\ IF t.exc # NoExc
               THEN /\ ThreadEnds(j, x, [t EXCEPT !.pc = "failed"])
                    /\ UNCHANGED <<events, emitted>>
               ELSE IF rc # 0
               THEN /\ ThreadEnds(j, x, [t EXCEPT !.pc = "failed",
                                                  !.exc = <<x, "ffmpeg">>])
                    /\ UNCHANGED <<events, emitted>>
               ELSE /\ ThreadEnds(j, x, [t EXCEPT !.pc = "ok"])
                    /\ ProgressEvent(j, x)
    /\ UNCHANGED <<jobs, active_recordings, task, mcap, listeners,
                   nextJob>>
    /\ Quiet
    /\ UNCHANGED offline

\* process_imu 190-209: the sample loop (struct.unpack may raise)
ImuIterate(j, raised) ==
    LET t == thr[j]["imu"] IN
    /\ t.pc = "iter"
    /\ IF raised
       THEN /\ ThreadEnds(j, "imu", [t EXCEPT !.pc = "failed",
                                              !.exc = <<"imu", "unpack">>])
            /\ UNCHANGED <<events, emitted>>
       ELSE /\ thr' = [thr EXCEPT ![j]["imu"].pc = "dump",
                                  ![j]["imu"].i = NumFrames]
            /\ UNCHANGED gexc
            /\ IF 0 % imu_downsample = 0 /\ 0 % ProgressEvery("imu") = 0
               THEN ProgressEvent(j, "imu")
               ELSE UNCHANGED <<events, emitted>>
    /\ UNCHANGED <<jobs, active_recordings, task, files, mcap, listeners,
                   nextJob>>
    /\ Quiet
    /\ UNCHANGED offline

\* process_imu 211-222: the document is written and the last progress sent
ImuDump(j) ==
    LET t == thr[j]["imu"] IN
    /\ t.pc = "dump"
    /\ files' = [files EXCEPT ![task[j].recording_id]["imu"] = "complete"]
    /\ ThreadEnds(j, "imu", [t EXCEPT !.pc = "ok"])
    /\ ProgressEvent(j, "imu")
    /\ UNCHANGED <<jobs, active_recordings, task, mcap, listeners,
                   nextJob>>
    /\ Quiet
    /\ UNCHANGED offline

\* ---- process_recording 236-242 and _run_processing 137-145 ---------------
\* asyncio.gather returns when every extractor succeeded, and raises as soon
\* as one extractor raised
gather_ready(j) ==
    \/ gexc[j] # NoExc
    \/ \A x \in Outputs : thr[j][x].pc = "ok"

\* a runner that collects the extractors' exceptions instead of raising
\* them (gather with return_exceptions=True)
GatherCollects(j) ==
    /\ task[j].pc = "gather"
    /\ \A x \in Outputs : thr[j][x].pc \in {"ok", "failed"}
    /\ PutAll(j, <<Event("done", NoExc), Event("done", NoExc)>>)
    /\ Finalize(j)
    /\ task' = [task EXCEPT ![j].pc = "finished"]
    /\ UNCHANGED <<thr, gexc, files, mcap, listeners, nextJob>>
    /\ Quiet
    /\ UNCHANGED offline

GatherReturns(j) ==
    /\ task[j].pc = "gather"
    /\ gather_ready(j)
    /\ IF gexc[j] # NoExc
       THEN Fail(j, gexc[j])
       ELSE /\ PutAll(j, <<Event("done", NoExc), Event("done", NoExc)>>)
            /\ Finalize(j)
            /\ task' = [task EXCEPT ![j].pc = "finished"]
    /\ UNCHANGED <<thr, gexc, files, mcap, listeners, nextJob>>
    /\ Quiet
    /\ UNCHANGED offline

\* ---- app.job_events ------------------------------------------------------
FreeListener(l) ==
    /\ listeners[l].st = "idle"
    /\ \A k \in ListenerIds : k < l => listeners[k].st # "idle"

job_events(l, job_id) ==
    /\ Quiet
    /\ UNCHANGED offline
    /\ IF job_id \notin DOMAIN jobs
       THEN \* 404: nothing changes
            UNCHANGED server
       ELSE /\ FreeListener(l)
            /\ listeners' = [listeners EXCEPT ![l] =
                   [@ EXCEPT !.st = "open", !.job = job_id,
                             !.early = ~jobs[job_id].done]]
            /\ UNCHANGED <<jobs, active_recordings, events, task, thr, gexc,
                           files, mcap, emitted, nextJob>>

\* an event_stream that forgets the job after whatever event it delivers
StreamEventForgets(l) ==
    LET j == listeners[l].job IN
    /\ listeners[l].st = "open"
    /\ events[j] # << >>
    /\ events' = [events EXCEPT ![j] = Tail(@)]
    /\ listeners' = [listeners EXCEPT ![l].st = "closed",
                                      ![l].term = @ + 1]
    /\ jobs' = [k \in DOMAIN jobs \ {j} |-> jobs[k]]
    /\ UNCHANGED <<active_recordings, task, thr, gexc, files, mcap,
                   emitted, nextJob>>
    /\ Quiet
    /\ UNCHANGED offline

\* event_stream 159-162 and 167: an event is taken from the job's queue
StreamEvent(l) ==
    LET j == listeners[l].job IN
    /\ listeners[l].st = "open"
    /\ events[j] # << >>
    /\ events' = [events EXCEPT ![j] = Tail(@)]
    /\ IF IsTerminal(Head(events[j]))
       THEN /\ listeners' = [listeners EXCEPT ![l].st = "closed",
                                              ![l].term = @ + 1]
            /\ jobs' = [k \in DOMAIN jobs \ {j} |-> jobs[k]]
       ELSE UNCHANGED <<listeners, jobs>>
    /\ UNCHANGED <<active_recordings, task, thr, gexc, files, mcap,
                   emitted, nextJob>>
    /\ Quiet
    /\ UNCHANGED offline

\* event_stream 163-164: thirty seconds without an event; the heartbeat is
\* sent and nothing changes
StreamHeartbeat(l) ==
    /\ listeners[l].st = "open"
    /\ events[listeners[l].job] = << >>
    /\ UNCHANGED server
    /\ Quiet
    /\ UNCHANGED offline

\* ---- preprocess.process_one -----------------------------------------------
\* pre.listing: the output names in the s3_files snapshot; pre.mcap_listed:
\* whether the snapshot holds a .mcap object and whether it is empty
FileStates == {"absent", "partial", "complete"}
McapStates == {"absent", "empty", "present"}
McapListings == {"none", "empty", "ok"}

\* a check that looks at the local directory only
NeedLocalOnly(r, listing) == {x \in Outputs : ~Exists(r, x)}

\* lines 61-70
Need(r, listing) == {x \in Outputs : x \notin listing /\ ~Exists(r, x)}

\* lines 99-107: the pool is created and the needed extractors submitted
Submit(need) ==
    pre' = [pre EXCEPT !.pc = "pool", !.need = need, !.launched = need,
                       !.running = need]

\* lines 54-92 (to the early return, to the download, or on to 99-107)
process_one(r, listing, mcap_listed) ==
    /\ pre.pc = "idle"
    /\ LET need == Need(r, listing)
           m == IF mcap[r] = "empty" THEN "absent" ELSE mcap[r]
           called == [pre EXCEPT !.listing = listing,
                                 !.mcap_listed = mcap_listed, !.need = need]
       IN IF need = {}
          THEN /\ pre' = [called EXCEPT !.pc = "returned"]
               /\ UNCHANGED mcap
          ELSE /\ mcap' = [mcap EXCEPT ![r] = m]
               /\ IF m = "absent"
                  THEN IF mcap_listed = "ok"
                       THEN pre' = [called EXCEPT !.pc = "downloading"]
                       ELSE pre' = [called EXCEPT !.pc = "returned"]
                  ELSE pre' = [called EXCEPT !.pc = "pool", !.launched = need,
                                             !.running = need]
    /\ UNCHANGED <<jobs, active_recordings, events, task, thr, gexc, files,
                   listeners, resp, emitted, nextJob, rng, imus, rd,
                   prg, dep, enc, poll>>

\* line 92: s3.download_file returns or raises
PreDownloadReturns(r, res) ==
    /\ pre.pc = "downloading"
    /\ IF res = "ok"
       THEN /\ mcap' = [mcap EXCEPT ![r] = "present"]
            /\ Submit(pre.need)
       ELSE /\ pre' = [pre EXCEPT !.pc = "raised"]
            /\ UNCHANGED mcap
    /\ UNCHANGED <<jobs, active_recordings, events, task, thr, gexc, files,
                   listeners, resp, emitted, nextJob, rng, imus, rd,
                   prg, dep, enc, poll>>

\* a submitted extractor returns or raises (processing.py 28-62, 127-174,
\* 178-223): "nomsg" is the zero check, "failed" any later error; imu.json
\* is opened only once its samples are collected
PreExtractorEnds(r, x, res) ==
    /\ pre.pc = "pool"
    /\ x \in pre.running
    /\ files' = [files EXCEPT ![r][x] =
                    IF res = "ok" THEN "complete"
                    ELSE IF res = "failed" /\ x \in Encoded THEN "partial"
                    ELSE @]
    /\ pre' = [pre EXCEPT !.running = @ \ {x},
                          !.failed = @ \/ res # "ok"]
    /\ UNCHANGED <<jobs, active_recordings, events, task, thr, gexc, mcap,
                   listeners, resp, emitted, nextJob, rng, imus, rd,
                   prg, dep, enc, poll>>

\* lines 108-119: the with-block has joined every worker; f.result() raised
\* if one failed, else the outputs are uploaded and the MCAP is removed
PreJoin(r) ==
    /\ pre.pc = "pool"
    /\ pre.running = {}
    /\ IF pre.failed
       THEN /\ pre' = [pre EXCEPT !.pc = "raised"]
            /\ UNCHANGED mcap
       ELSE /\ pre' = [pre EXCEPT !.pc = "returned",
                                  !.uploaded = {x \in Outputs : Exists(r, x)}]
            /\ mcap' = [mcap EXCEPT ![r] = "absent"]
    /\ UNCHANGED <<jobs, active_recordings, events, task, thr, gexc, files,
                   listeners, resp, emitted, nextJob, rng, imus, rd,
                   prg, dep, enc, poll>>

\* SpecPre: one call of process_one on a cache directory in any state earlier
\* runs can have left, with any listing snapshot
InitPre ==
    /\ EmptyRegistry
    /\ files \in [Recordings -> [Outputs -> FileStates]]
    /\ mcap \in [Recordings -> McapStates]
    /\ rng = RngIdle /\ imus = ImuIdle /\ rd = RdIdle
    /\ prg = PrgIdle /\ dep = DepIdle /\ enc = EncIdle /\ poll = PollIdle
    /\ pre = PreIdle

NextPre ==
    \/ \E r \in Recordings, listing \in SUBSET Outputs, ml \in McapListings :
          process_one(r, listing, ml)
    \/ \E r \in Recordings, res \in {"ok", "raise"} : PreDownloadReturns(r, res)
    \/ \E r \in Recordings, x \in Outputs, res \in {"ok", "nomsg", "failed"} :
          PreExtractorEnds(r, x, res)
    \/ \E r \in Recordings : PreJoin(r)

SpecPre == InitPre /\ [][NextPre]_vars

\* ---- app._range_response -------------------------------------------------
\* Text is a sequence of one-character strings, so that the header is parsed
\* and the answer's headers are formatted character by character.
MaxFileSize == 12
MaxOffset == 13
ChunkSize == 65536

Min(a, b) == IF a <= b THEN a ELSE b

DigitChars == <<"0", "1", "2", "3", "4", "5", "6", "7", "8", "9">>

BytesEq == <<"b", "y", "t", "e", "s", "=">>
BytesSp == <<"b", "y", "t", "e", "s", " ">>

\* str(n)
RECURSIVE Str(_)
Str(n) ==
    IF n < 0 THEN <<"-">> \o Str(0 - n)
    ELSE IF n < 10 THEN <<DigitChars[n + 1]>>
    ELSE Str(n \div 10) \o <<DigitChars[(n % 10) + 1]>>

\* int(s) of a non-empty text of decimal digits
RECURSIVE int(_)
int(s) ==
    LET d == (CHOOSE k \in 1..10 : DigitChars[k] = s[Len(s)]) - 1
    IN IF Len(s) = 1 THEN d
       ELSE int(SubSeq(s, 1, Len(s) - 1)) * 10 + d

StartsWith(s, old) == Len(s) >= Len(old) /\ SubSeq(s, 1, Len(old)) = old

\* s.replace(old, ""): every occurrence of old is removed, left to right
RECURSIVE Remove(_, _)
Remove(s, old) ==
    IF s = << >> THEN << >>
    ELSE IF StartsWith(s, old)
         THEN Remove(SubSeq(s, Len(old) + 1, Len(s)), old)
         ELSE <<Head(s)>> \o Remove(Tail(s), old)

\* s.split(sep) for a one-character sep
RECURSIVE Split(_, _)
Split(s, sep) ==
    IF \A k \in 1..Len(s) : s[k] # sep THEN <<s>>
    ELSE LET k == CHOOSE i \in 1..Len(s) :
                      s[i] = sep /\ \A h \in 1..(i - 1) : s[h] # sep
         IN <<SubSeq(s, 1, k - 1)>> \o Split(SubSeq(s, k + 1, Len(s)), sep)

\* the file served: byte k of it (0-based) has the value k % 256
FileBytes(size) == [k \in 1..size |-> (k - 1) % 256]

\* an answer that trusts the end the client sent
NoClamp(end, file_size) == end

\* line 214
Clamp(end, file_size) == Min(end, file_size - 1)

\* lines 217-227: seek(start), then read until length bytes were sent or the
\* file ends
RECURSIVE iter_chunk(_, _, _)
iter_chunk(file, pos, remaining) ==
    IF remaining > 0
    THEN LET chunk_size == Min(ChunkSize, remaining)
             data == SubSeq(file, pos + 1, Min(pos + chunk_size, Len(file)))
         IN IF data = << >> THEN << >>
            ELSE data \o iter_chunk(file, pos + Len(data),
                                    remaining - Len(data))
    ELSE << >>

\* lines 205-240: the answer to a request with the given Range header
\* (<< >> when the request has none)
RangeAnswer(file_size, range_header) ==
    IF range_header # << >>
    THEN LET range_spec == Remove(range_header, BytesEq)
             parts == Split(range_spec, "-")
             start == IF parts[1] # << >> THEN int(parts[1]) ELSE 0
             end0 == IF parts[2] # << >> THEN int(parts[2]) ELSE file_size - 1
             end == Clamp(end0, file_size)
             length == end - start + 1
         IN [status |-> 206,
             content_range |-> BytesSp \o Str(start) \o <<"-">> \o Str(end)
                                  \o <<"/">> \o Str(file_size),
             content_length |-> Str(length),
             body |-> iter_chunk(FileBytes(file_size), start, length)]
    ELSE [status |-> 200, content_range |-> << >>,
          content_length |-> Str(file_size), body |-> FileBytes(file_size)]

\* the requests: a file size and the two numbers of "bytes=<start>-<end>",
\* either of which the client may leave out
FileSizes == 1..MaxFileSize \cup {1000}
Offsets == 0..MaxOffset \cup {100, 199}
Omitted == [given |-> FALSE, n |-> 0]
Given(k) == [given |-> TRUE, n |-> k]
RangeNumbers == {Given(k) : k \in Offsets} \cup {Omitted}

OffsetText(v) == IF v.given THEN Str(v.n) ELSE << >>

RangeHeader(start, end) ==
    BytesEq \o OffsetText(start) \o <<"-">> \o OffsetText(end)

\* serve_rgb / serve_depth call _range_response on an existing file
range_response ==
    /\ rng.pc = "request"
    /\ rng' = [rng EXCEPT !.pc = "answered",
                          !.answer = RangeAnswer(rng.file_size,
                                        RangeHeader(rng.start, rng.end))]
    /\ UNCHANGED <<jobs, active_recordings, events, task, thr, gexc, files,
                   mcap, listeners, resp, emitted, nextJob, pre, imus, rd,
                   prg, dep, enc, poll>>

InitRange ==
    /\ ServerInit
    /\ pre = PreIdle /\ imus = ImuIdle /\ rd = RdIdle
    /\ prg = PrgIdle /\ dep = DepIdle /\ enc = EncIdle /\ poll = PollIdle
    /\ \E size \in FileSizes, start, end \in RangeNumbers :
          rng = [pc |-> "request", file_size |-> size, start |-> start,
                 end |-> end, answer |-> << >>]

NextRange == range_response

SpecRange == InitRange /\ [][NextRange]_vars

\* ---- processing.process_imu: the sample loop -------------------------------
\* A message is its log time in nanoseconds; its payload is identified by its
\* 0-based position on the channel.  Output times are kept in units of 1e-4
\* seconds, the precision round(t_s, 4) leaves.
MaxMsgs == 4
MaxDownsample == 3
TickNs == 100000

LogTimes == {0, 120000, 260000}
Downsamples == 1..MaxDownsample \cup {imu_downsample}

RECURSIVE SeqsUpTo(_, _)
SeqsUpTo(S, n) ==
    IF n = 0 THEN {<< >>}
    ELSE LET shorter == SeqsUpTo(S, n - 1)
         IN shorter \cup {Append(q, v) : q \in shorter, v \in S}

\* round((ts - first_ts) / 1e9, 4), in units of 1e-4 s (no value drawn from
\* LogTimes falls halfway between two units)
Round4(d) ==
    IF d >= 0 THEN (2 * d + TickNs) \div (2 * TickNs)
    ELSE 0 - ((2 * (0 - d) + TickNs) \div (2 * TickNs))

\* a loop that keeps the last message of every group of K
KeepsLast(i, downsample) == i % downsample = downsample - 1

\* line 191: the messages the loop does not skip
Keeps(i, downsample) == i % downsample = 0

\* lines 180-189
imu_call ==
    /\ imus.pc = "call"
    /\ imus' = [imus EXCEPT
                   !.pc = IF Len(imus.msgs) = 0 THEN "raised" ELSE "loop"]
    /\ UNCHANGED <<jobs, active_recordings, events, task, thr, gexc, files,
                   mcap, listeners, resp, emitted, nextJob, pre, rng, rd,
                   prg, dep, enc, poll>>

\* lines 190-209: one iteration
imu_iteration ==
    /\ imus.pc = "loop"
    /\ imus.i < Len(imus.msgs)
    /\ LET ts == imus.msgs[imus.i + 1]
           first_ts == IF imus.first_set THEN imus.first_ts ELSE ts
       IN IF Keeps(imus.i, imus.downsample)
          THEN imus' = [imus EXCEPT
                          !.i = @ + 1,
                          !.first_set = TRUE,
                          !.first_ts = first_ts,
                          !.timestamps = Append(@, Round4(ts - first_ts)),
                          !.samples = Append(@, imus.i)]
          ELSE imus' = [imus EXCEPT !.i = @ + 1]
    /\ UNCHANGED <<jobs, active_recordings, events, task, thr, gexc, files,
                   mcap, listeners, resp, emitted, nextJob, pre, rng, rd,
                   prg, dep, enc, poll>>

\* lines 211-220: the document is built and written
imu_write ==
    /\ imus.pc = "loop"
    /\ imus.i = Len(imus.msgs)
    /\ imus' = [imus EXCEPT !.pc = "written",
                            !.sample_count = Len(imus.timestamps)]
    /\ UNCHANGED <<jobs, active_recordings, events, task, thr, gexc, files,
                   mcap, listeners, resp, emitted, nextJob, pre, rng, rd,
                   prg, dep, enc, poll>>

InitImu ==
    /\ ServerInit
    /\ pre = PreIdle /\ rng = RngIdle /\ rd = RdIdle
    /\ prg = PrgIdle /\ dep = DepIdle /\ enc = EncIdle /\ poll = PollIdle
    /\ \E msgs \in SeqsUpTo(LogTimes, MaxMsgs), k \in Downsamples :
          imus = [pc |-> "call", msgs |-> msgs, downsample |-> k, i |-> 0,
                  first_set |-> FALSE, first_ts |-> 0, timestamps |-> << >>,
                  samples |-> << >>, sample_count |-> 0]

NextImu == imu_call \/ imu_iteration \/ imu_write

SpecImu == InitImu /\ [][NextImu]_vars

\* ---- mcap_reader ----------------------------------------------------------
\* A container: its channels (channel id k carries topic channels[k]), the
\* channel id of each message record in file order, and how the file ends.
\*   indexed: the file has a readable summary (footer and statistics)
\*   cut:     the number of message records that can be read
\*   torn:    the forward scan meets an unreadable record after them and
\*            the reader raises there
\*   lib:     how the non-seeking reader hands messages over: "stream", one
\*            by one as it reads them, or "buffer", all of them once it has
\*            read the whole file (nothing when it raised before)
\* A message is identified by its position in the file.
MaxChannels == 2
MaxRecords == 3

Topics == {"/oak/rgb", "/oak/imu"}
AskedTopics == Topics \cup {"/oak/depth"}

Positions(c) == 1..Len(c.msgs)

TopicOf(c, k) == c.channels[c.msgs[k]]

\* the first upto message records of the file that are on one of the
\* topics, in file order
OnTopics(c, topics, upto) ==
    LET Wanted(k) == TopicOf(c, k) \in topics
    IN SelectSeq([k \in 1..upto |-> k], Wanted)

\* mcap.reader: make_reader(f).get_summary() with statistics
has_summary(c) == c.indexed

\* mcap.reader: SeekingReader.iter_messages(topics=[topic])
IndexedMessages(c, topic) == OnTopics(c, {topic}, Len(c.msgs))

\* mcap.reader: summary.statistics.channel_message_counts
channel_message_counts(c) ==
    [cid \in 1..Len(c.channels) |->
        Cardinality({k \in Positions(c) : c.msgs[k] = cid})]

\* mcap.reader: NonSeekingReader(f).iter_messages(topics), what it yields
\* and whether it raises at the end
ForwardScan(c, topics) ==
    LET readable == OnTopics(c, topics, c.cut)
    IN [yielded |-> IF c.torn /\ c.lib = "buffer" THEN << >> ELSE readable,
        raised |-> c.torn]

Yielded(seq) == [yielded |-> seq, raised |-> FALSE]

\* iter_messages without the try/except around the forward scan
iter_messages_unguarded(c, topic) ==
    IF has_summary(c) THEN Yielded(IndexedMessages(c, topic))
    ELSE ForwardScan(c, {topic})

\* lines 28-46
iter_messages(c, topic) ==
    IF has_summary(c) THEN Yielded(IndexedMessages(c, topic))
    ELSE Yielded(ForwardScan(c, {topic}).yielded)

\* lines 105-133
count_messages(c, topic) ==
    IF has_summary(c)
    THEN LET cids == {cid \in 1..Len(c.channels) : c.channels[cid] = topic}
         IN IF cids = {} THEN 0
            ELSE channel_message_counts(c)[
                    CHOOSE cid \in cids : \A other \in cids : cid <= other]
    ELSE Len(ForwardScan(c, {topic}).yielded)

\* get_metadata, lines 64-71 and 77-94: _stats.message_count
message_count(c) ==
    IF has_summary(c) THEN Len(c.msgs)
    ELSE Len(ForwardScan(c, Topics).yielded)

Containers ==
    {c \in [channels : SeqsUpTo(Topics, MaxChannels),
            msgs : SeqsUpTo(1..MaxChannels, MaxRecords),
            indexed : BOOLEAN, cut : 0..MaxRecords, torn : BOOLEAN,
            lib : {"stream", "buffer"}] :
        /\ \A k \in 1..Len(c.msgs) : c.msgs[k] <= Len(c.channels)
        /\ c.cut <= Len(c.msgs)
        /\ c.indexed => c.cut = Len(c.msgs) /\ ~c.torn /\ c.lib = "stream"
        /\ c.cut < Len(c.msgs) => c.torn}

\* a caller reads one topic: processing.py counts, then iterates
read_topic(topic) ==
    /\ rd.pc = "closed"
    /\ rd' = [rd EXCEPT !.pc = "read", !.topic = topic,
                        !.count = count_messages(rd.file, topic),
                        !.iter = iter_messages(rd.file, topic)]
    /\ UNCHANGED <<jobs, active_recordings, events, task, thr, gexc, files,
                   mcap, listeners, resp, emitted, nextJob, pre, rng, imus,
                   prg, dep, enc, poll>>

\* app.metadata reads the statistics
read_metadata ==
    /\ rd.pc = "read"
    /\ rd' = [rd EXCEPT !.pc = "described",
                        !.message_count = message_count(rd.file)]
    /\ UNCHANGED <<jobs, active_recordings, events, task, thr, gexc, files,
                   mcap, listeners, resp, emitted, nextJob, pre, rng, imus,
                   prg, dep, enc, poll>>

InitReader ==
    /\ ServerInit
    /\ pre = PreIdle /\ rng = RngIdle /\ imus = ImuIdle
    /\ prg = PrgIdle /\ dep = DepIdle /\ enc = EncIdle /\ poll = PollIdle
    /\ \E c \in Containers :
          rd = [pc |-> "closed", file |-> c, topic |-> "", count |-> 0,
                iter |-> Yielded(<< >>), message_count |-> 0]

NextReader ==
    \/ \E topic \in AskedTopics : read_topic(topic)
    \/ read_metadata

SpecReader == InitReader /\ [][NextReader]_vars

\* ---- the progress values of one stage -------------------------------------
\* A progress value is the fraction num/den the callback is handed; after
\* tells whether the stage's work had succeeded when it was handed over.
\* The recording's topic is carried by one or two channel ids with c1 and c2
\* messages; total is what count_messages returns for it and n the number
\* of messages iter_messages yields.
MaxExtra == 1

Fraction(num, den, after) == [num |-> num, den |-> den, after |-> after]

Leq(a, b) == a.num * b.den <= b.num * a.den

TopicName(x) ==
    CASE x = "rgb" -> "/oak/rgb"
      [] x = "depth" -> "/oak/depth"
      [] x = "imu" -> "/oak/imu"

Counts(x) ==
    (0..MaxExtra) \cup {ProgressEvery(x) + k : k \in 0..MaxExtra}

Recording(x, c1, c2, indexed) ==
    [channels |-> IF c2 = 0 THEN <<TopicName(x)>>
                  ELSE <<TopicName(x), TopicName(x)>>,
     msgs |-> [k \in 1..(c1 + c2) |-> IF k <= c1 THEN 1 ELSE 2],
     indexed |-> indexed, cut |-> c1 + c2, torn |-> FALSE, lib |-> "stream"]

\* the stage reports i / total for message i
Reports(x, i) ==
    IF x = "imu"
    THEN i % imu_downsample = 0 /\ i % ProgressEvery(x) = 0
    ELSE i % ProgressEvery(x) = 0

\* lines 30-32, 129-131, 180-182
stage_count ==
    /\ prg.pc = "call"
    /\ prg' = [prg EXCEPT !.pc = IF prg.total = 0 THEN "failed" ELSE "loop"]
    /\ UNCHANGED <<jobs, active_recordings, events, task, thr, gexc, files,
                   mcap, listeners, resp, emitted, nextJob, pre, rng, imus,
                   rd, dep, enc, poll>>

\* one pass of the loop of lines 50-53, 157-165 or 190-209; the body may
\* raise before it reports
stage_message(raised) ==
    /\ prg.pc = "loop"
    /\ prg.i < prg.n
    /\ IF raised
       THEN prg' = [prg EXCEPT !.pc = IF prg.stage \in Encoded THEN "wait"
                                      ELSE "failed",
                               !.exc = TRUE]
       ELSE prg' = [prg EXCEPT
                      !.i = @ + 1,
                      !.out = IF Reports(prg.stage, prg.i)
                              THEN Append(@, Fraction(prg.i, prg.total, FALSE))
                              ELSE @]
    /\ UNCHANGED <<jobs, active_recordings, events, task, thr, gexc, files,
                   mcap, listeners, resp, emitted, nextJob, pre, rng, imus,
                   rd, dep, enc, poll>>

\* the loop is over: lines 54-62, 166-174, 211-222
stage_end(rc) ==
    /\ \/ prg.pc = "loop" /\ prg.i = prg.n
       \/ prg.pc = "wait"
    /\ prg.stage \notin Encoded => rc = 0
    /\ IF prg.exc \/ rc # 0
       THEN prg' = [prg EXCEPT !.pc = "failed"]
       ELSE prg' = [prg EXCEPT !.pc = "done",
                               !.out = Append(@, Fraction(1, 1, TRUE))]
    /\ UNCHANGED <<jobs, active_recordings, events, task, thr, gexc, files,
                   mcap, listeners, resp, emitted, nextJob, pre, rng, imus,
                   rd, dep, enc, poll>>

\* app._run_processing 104-120: the download stage
stage_download(res) ==
    /\ prg.stage = "download"
    /\ prg.pc \in {"start", "listing", "downloading"}
    /\ IF prg.pc = "start"
       THEN prg' = [prg EXCEPT !.pc = "listing",
                               !.out = Append(@, Fraction(0, 1, FALSE))]
       ELSE IF res # "ok"
       THEN prg' = [prg EXCEPT !.pc = "failed"]
       ELSE IF prg.pc = "listing"
       THEN prg' = [prg EXCEPT !.pc = "downloading",
                               !.out = Append(@, Fraction(1, 10, FALSE))]
       ELSE prg' = [prg EXCEPT !.pc = "done",
                               !.out = Append(@, Fraction(1, 1, TRUE))]
    /\ UNCHANGED <<jobs, active_recordings, events, task, thr, gexc, files,
                   mcap, listeners, resp, emitted, nextJob, pre, rng, imus,
                   rd, dep, enc, poll>>

InitProgress ==
    /\ ServerInit
    /\ pre = PreIdle /\ rng = RngIdle /\ imus = ImuIdle /\ rd = RdIdle
    /\ dep = DepIdle /\ enc = EncIdle /\ poll = PollIdle
    /\ \/ prg = [pc |-> "start", stage |-> "download", total |-> 0, n |-> 0,
                  i |-> 0, exc |-> FALSE, out |-> << >>]
       \/ \E x \in Outputs, indexed \in BOOLEAN : \E c1, c2 \in Counts(x) :
             LET file == Recording(x, c1, c2, indexed) IN
             prg = [pc |-> "call", stage |-> x,
                    total |-> count_messages(file, TopicName(x)),
                    n |-> Len(iter_messages(file, TopicName(x)).yielded),
                    i |-> 0, exc |-> FALSE, out |-> << >>]

NextProgress ==
    \/ stage_count
    \/ \E raised \in BOOLEAN : stage_message(raised)
    \/ \E rc \in {0, 1} : stage_end(rc)
    \/ \E res \in {"ok", "raise"} : stage_download(res)

SpecProgress == InitProgress /\ [][NextProgress]_vars

\* ---- processing._colorize_depth_frame -------------------------------------
\* A frame maps each pixel <<x, y>> to its raw depth in millimetres.  The
\* OpenCV filters are modelled by what they compute on the window of each
\* pixel: medianBlur takes the median with the border replicated, dilate
\* and erode take the maximum and the minimum over the kernel inside the
\* image, bilateralFilter returns a weighted mean of its window, which lies
\* between the window's least and greatest value.
FrameW == 3
FrameH == 2
MAX_DEPTH_MM == 1000
MIN_DEPTH_MM == 100
BilateralD == 9
ColorFloor == 50

Pixels == (1..FrameW) \X (1..FrameH)

\* no return, too near, in range, too far
RawDepths == {0, MIN_DEPTH_MM - 1, 500, MAX_DEPTH_MM + 1}

Black == <<0, 0, 0>>

Square(k) == ((0 - k)..k) \X ((0 - k)..k)

Abs(n) == IF n < 0 THEN 0 - n ELSE n

\* cv2.getStructuringElement(cv2.MORPH_ELLIPSE, (5, 5)) and (7, 7)
KERNEL_5 == {o \in Square(2) : Abs(o[2]) = 2 => o[1] = 0}

KERNEL_7 ==
    {o \in Square(3) : /\ Abs(o[2]) = 3 => o[1] = 0
                       /\ Abs(o[2]) = 2 => Abs(o[1]) <= 2}

\* np.ones((31, 31))
KERNEL_31 == Square(15)

Max(S) == CHOOSE v \in S : \A w \in S : w <= v

Least(S) == CHOOSE v \in S : \A w \in S : v <= w

\* BORDER_REPLICATE
Replicate(p, o) ==
    <<Max({1, Min(FrameW, p[1] + o[1])}), Max({1, Min(FrameH, p[2] + o[2])})>>

\* BORDER_REFLECT_101
Reflect(i, n) ==
    IF n = 1 THEN 1
    ELSE LET m == 2 * (n - 1)
             k == (i - 1) % m
         IN 1 + (IF k < n THEN k ELSE m - k)

\* cv2.medianBlur(img, 5)
medianBlur(img) ==
    [p \in Pixels |->
        LET at(o) == img[Replicate(p, o)]
            W == Square(2)
        IN CHOOSE v \in {at(o) : o \in W} :
              /\ Cardinality({o \in W : at(o) < v}) <= 12
              /\ Cardinality({o \in W : at(o) <= v}) >= 13]

Inside(p, K) == {q \in Pixels : <<q[1] - p[1], q[2] - p[2]>> \in K}

\* cv2.dilate(img, K) and the erosion of MORPH_CLOSE
dilate(img, K) == [p \in Pixels |-> Max({img[q] : q \in Inside(p, K)})]

erode(img, K) == [p \in Pixels |-> Least({img[q] : q \in Inside(p, K)})]

\* the values cv2.bilateralFilter(img, d=9, ...) can give each pixel
bilateralFilter(img) ==
    LET r == BilateralD \div 2
        lo == Least({img[p] : p \in Pixels})
        hi == Max({img[p] : p \in Pixels})
        Window(p) ==
            {img[<<Reflect(p[1] + o[1], FrameW), Reflect(p[2] + o[2], FrameH)>>] :
                o \in {o \in Square(r) : o[1] * o[1] + o[2] * o[2] <= r * r}}
    IN IF lo = hi THEN {img}
       ELSE {out \in [Pixels -> lo..hi] :
               \A p \in Pixels : /\ Least(Window(p)) <= out[p]
                                  /\ out[p] <= Max(Window(p))}

\* lines 86-91
Threshold(depth_raw) ==
    [p \in Pixels |->
        IF depth_raw[p] > MAX_DEPTH_MM \/ depth_raw[p] < MIN_DEPTH_MM
        THEN 0 ELSE depth_raw[p]]

\* lines 97-99 and 107-110: depth to inverted depth and back
Invert(img) ==
    [p \in Pixels |-> IF img[p] > 0 THEN MAX_DEPTH_MM - img[p] ELSE 0]

Restore(img) ==
    [p \in Pixels |->
        IF img[p] > 0 THEN Max({0, Min(MAX_DEPTH_MM, MAX_DEPTH_MM - img[p])})
        ELSE 0]

\* lines 103-105
FillStillEmpty(inverted, big_dilated) ==
    [p \in Pixels |-> IF inverted[p] = 0 THEN big_dilated[p] ELSE inverted[p]]

\* lines 119-123: the JET colour of a pixel is identified by its index
Colorize(filled) ==
    [p \in Pixels |->
        IF filled[p] > ColorFloor
        THEN <<"jet", (255 * MAX_DEPTH_MM - 255 * filled[p]) \div MAX_DEPTH_MM>>
        ELSE Black]

\* the statements of _colorize_depth_frame in order; img is the array the
\* next statement works on
DepthSteps ==
    <<"threshold", "median", "invert", "dilate5", "close_dilate",
      "close_erode", "fill", "restore", "bilateral", "median2", "colormap",
      "returned">>

StepAfter(pc) ==
    DepthSteps[1 + CHOOSE k \in 1..(Len(DepthSteps) - 1) : DepthSteps[k] = pc]

colorize_step ==
    /\ dep.pc \in {DepthSteps[k] : k \in 1..(Len(DepthSteps) - 1)}
    /\ \E out \in
          CASE dep.pc = "threshold" -> {Threshold(dep.depth_raw)}
            [] dep.pc = "median" -> {medianBlur(dep.img)}
            [] dep.pc = "invert" -> {Invert(dep.img)}
            [] dep.pc = "dilate5" -> {dilate(dep.img, KERNEL_5)}
            [] dep.pc = "close_dilate" -> {dilate(dep.img, KERNEL_7)}
            [] dep.pc = "close_erode" -> {erode(dep.img, KERNEL_7)}
            [] dep.pc = "fill" ->
                  {FillStillEmpty(dep.img, dilate(dep.img, KERNEL_31))}
            [] dep.pc = "restore" -> {Restore(dep.img)}
            [] dep.pc = "bilateral" -> bilateralFilter(dep.img)
            [] dep.pc = "median2" -> {medianBlur(dep.img)}
            [] dep.pc = "colormap" -> {dep.img} :
          dep' = [dep EXCEPT
                    !.pc = StepAfter(dep.pc),
                    !.img = out,
                    !.colored = IF dep.pc = "colormap" THEN Colorize(dep.img)
                                ELSE @]
    /\ UNCHANGED <<jobs, active_recordings, events, task, thr, gexc, files,
                   mcap, listeners, resp, emitted, nextJob, pre, rng, imus,
                   rd, prg, enc, poll>>

InitDepth ==
    /\ ServerInit
    /\ pre = PreIdle /\ rng = RngIdle /\ imus = ImuIdle /\ rd = RdIdle
    /\ prg = PrgIdle /\ enc = EncIdle /\ poll = PollIdle
    /\ \E frame \in [Pixels -> RawDepths] :
          dep = [pc |-> "threshold", depth_raw |-> frame, img |-> frame,
                 colored |-> [p \in Pixels |-> Black]]

NextDepth == colorize_step

SpecDepth == InitDepth /\ [][NextDepth]_vars

\* ---- process_rgb / process_depth: the encoder and its input pipe -----------
\* proc.stdin is a buffered writer on the pipe: a write that fits in the
\* buffer is only copied, a larger one flushes the buffer and writes to the
\* pipe, and close() flushes what is buffered, closes the descriptor and
\* raises what the flush raised.  A write to the pipe of an encoder that has
\* exited raises BrokenPipeError and leaves the buffer as it was.
\*   enc.proc:  "running", "exited" (not waited on), "reaped" (waited on)
\*   enc.stdin: "open", "closed"
MaxWrites == 4

\* the encoder exits by itself (bad input, full disk, killed)
encoder_dies ==
    /\ enc.pc \in {"loop", "finally"}
    /\ enc.proc = "running"
    /\ enc' = [enc EXCEPT !.proc = "exited"]
    /\ UNCHANGED <<jobs, active_recordings, events, task, thr, gexc, files,
                   mcap, listeners, resp, emitted, nextJob, pre, rng, imus,
                   rd, prg, dep, poll>>

\* one pass of the loop of lines 50-53 or 157-165
\*   "decode": lz4f.decompress or reshape raises (depth only)
\*   "small":  the frame fits in the buffer
\*   "large":  the buffer is flushed and the frame written to the pipe
encoder_frame(kind) ==
    /\ enc.pc = "loop"
    /\ enc.i < MaxWrites
    /\ kind = "decode" => enc.x = "depth"
    /\ IF kind = "decode"
       THEN enc' = [enc EXCEPT !.pc = "finally", !.exc = "decode"]
       ELSE IF kind = "small"
       THEN enc' = [enc EXCEPT !.i = @ + 1, !.buffered = TRUE]
       ELSE IF enc.proc = "running"
       THEN enc' = [enc EXCEPT !.i = @ + 1, !.buffered = FALSE]
       ELSE enc' = [enc EXCEPT !.pc = "finally", !.exc = "write"]
    /\ UNCHANGED <<jobs, active_recordings, events, task, thr, gexc, files,
                   mcap, listeners, resp, emitted, nextJob, pre, rng, imus,
                   rd, prg, dep, poll>>

\* the messages are used up
encoder_loop_ends ==
    /\ enc.pc = "loop"
    /\ enc.i = MaxWrites
    /\ enc' = [enc EXCEPT !.pc = "finally"]
    /\ UNCHANGED <<jobs, active_recordings, events, task, thr, gexc, files,
                   mcap, listeners, resp, emitted, nextJob, pre, rng, imus,
                   rd, prg, dep, poll>>

\* line 55 / 167: proc.stdin.close()
Close ==
    IF enc.buffered /\ enc.proc = "exited"
    THEN enc' = [enc EXCEPT !.pc = "raised", !.stdin = "closed",
                            !.exc = "close"]
    ELSE enc' = [enc EXCEPT !.pc = "wait", !.stdin = "closed",
                            !.buffered = FALSE]

encoder_close ==
    /\ enc.pc = "finally"
    /\ Close
    /\ UNCHANGED <<jobs, active_recordings, events, task, thr, gexc, files,
                   mcap, listeners, resp, emitted, nextJob, pre, rng, imus,
                   rd, prg, dep, poll>>

\* lines 56-62 / 168-174: proc.wait() returns with the exit status, then the
\* pending exception is raised again or the status is looked at
encoder_wait(rc) ==
    /\ enc.pc = "wait"
    /\ enc' = [enc EXCEPT
                 !.proc = "reaped",
                 !.returncode = rc,
                 !.pc = IF enc.exc # "none" \/ rc # 0 THEN "raised"
                        ELSE "returned",
                 !.exc = IF enc.exc = "none" /\ rc # 0 THEN "ffmpeg" ELSE @]
    /\ UNCHANGED <<jobs, active_recordings, events, task, thr, gexc, files,
                   mcap, listeners, resp, emitted, nextJob, pre, rng, imus,
                   rd, prg, dep, poll>>

\* line 48 / 153: the encoder has been spawned
InitEncoder ==
    /\ ServerInit
    /\ pre = PreIdle /\ rng = RngIdle /\ imus = ImuIdle /\ rd = RdIdle
    /\ prg = PrgIdle /\ dep = DepIdle /\ poll = PollIdle
    /\ \E x \in Encoded :
          enc = [pc |-> "loop", x |-> x, stdin |-> "open", proc |-> "running",
                 buffered |-> FALSE, i |-> 0, exc |-> "none",
                 returncode |-> -1]

NextEncoder ==
    \/ encoder_dies
    \/ \E kind \in {"decode", "small", "large"} : encoder_frame(kind)
    \/ encoder_loop_ends
    \/ encoder_close
    \/ \E rc \in {0, 1} : encoder_wait(rc)

SpecEncoder == InitEncoder /\ [][NextEncoder]_vars

\* ---- preprocess.run: the poll loop ------------------------------------------
\* The folders of the bucket are numbered in the order list_prefix("")
\* returns them.
\*   poll.selectable[f]: the listing of folder f holds a non-empty MCAP and
\*                       lacks an output (lines 139-150)
\*   poll.failed:        the set of line 125
\*   poll.raised:        the folders for which process_one has raised
\*   poll.called:        the folders handed to process_one in this cycle
\*   poll.calls[f]:      how often process_one was called for f so far
MaxFolders == 2
MaxCycles == 2

Folders == 1..MaxFolders

OthersUnchanged ==
    UNCHANGED <<jobs, active_recordings, events, task, thr, gexc, files,
                mcap, listeners, resp, emitted, nextJob, pre, rng, imus,
                rd, prg, dep, enc>>

\* lines 127-129 and 159-163: a cycle starts with the listing of the bucket;
\* when that raises the cycle is over
poll_cycle(res) ==
    /\ poll.pc = "sleep"
    /\ poll.cycle < MaxCycles
    /\ poll' = [poll EXCEPT !.cycle = @ + 1, !.called = {},
                            !.k = 1,
                            !.pc = IF res = "ok" THEN "folder" ELSE "sleep"]
    /\ OthersUnchanged

\* lines 130-152: the next folder is skipped, or listed and looked at; a
\* listing that raises ends the cycle (159-160)
poll_folder(res) ==
    /\ poll.pc = "folder"
    /\ poll.k <= MaxFolders
    /\ IF poll.k \in poll.failed
       THEN poll' = [poll EXCEPT !.k = @ + 1]
       ELSE IF res # "ok"
       THEN poll' = [poll EXCEPT !.pc = "sleep"]
       ELSE IF ~poll.selectable[poll.k]
       THEN poll' = [poll EXCEPT !.k = @ + 1]
       ELSE poll' = [poll EXCEPT !.pc = "process_one",
                                 !.called = @ \cup {poll.k},
                                 !.calls[poll.k] = @ + 1]
    /\ OthersUnchanged

\* a loop without the inner try: what process_one raises ends the cycle
process_one_unguarded(res) ==
    /\ poll.pc = "process_one"
    /\ poll' = [poll EXCEPT
                  !.pc = IF res = "raise" THEN "sleep" ELSE "folder",
                  !.k = IF res = "raise" THEN @ ELSE @ + 1,
                  !.raised = IF res = "raise" THEN @ \cup {poll.k} ELSE @,
                  !.selectable[poll.k] = IF res = "stored" THEN FALSE ELSE @]
    /\ OthersUnchanged

\* lines 153-157: process_one returns, with the outputs in the store
\* ("stored") or without ("skipped"), or raises
process_one_returns(res) ==
    /\ poll.pc = "process_one"
    /\ poll' = [poll EXCEPT
                  !.pc = "folder",
                  !.k = @ + 1,
                  !.failed = IF res = "raise" THEN @ \cup {poll.k} ELSE @,
                  !.raised = IF res = "raise" THEN @ \cup {poll.k} ELSE @,
                  !.selectable[poll.k] = IF res = "stored" THEN FALSE ELSE @]
    /\ OthersUnchanged

\* lines 162-163: the folders are used up
poll_sleep ==
    /\ poll.pc = "folder"
    /\ poll.k > MaxFolders
    /\ poll' = [poll EXCEPT !.pc = "sleep"]
    /\ OthersUnchanged

InitPoll ==
    /\ ServerInit
    /\ pre = PreIdle /\ rng = RngIdle /\ imus = ImuIdle /\ rd = RdIdle
    /\ prg = PrgIdle /\ dep = DepIdle /\ enc = EncIdle
    /\ \E sel \in [Folders -> BOOLEAN] :
          poll = [pc |-> "sleep", cycle |-> 0, k |-> 1, selectable |-> sel,
                  failed |-> {}, raised |-> {}, called |-> {},
                  calls |-> [f \in Folders |-> 0]]

NextPoll ==
    \/ \E res \in {"ok", "raise"} : poll_cycle(res)
    \/ \E res \in {"ok", "raise"} : poll_folder(res)
    \/ \E res \in {"stored", "skipped", "raise"} : process_one_returns(res)
    \/ poll_sleep

SpecPoll == InitPoll /\ [][NextPoll]_vars

\* ---- the system ----------------------------------------------------------
ListingResults == {"ok", "nokey", "zero", "raise"}
DownloadResults == {"ok", "absent", "empty"}

\* Spec: the progress streams of a server whose clients start at most
\* ListenJobs jobs
Next ==
    \/ \E r \in Recordings : start_processing(r) /\ nextJob' <= ListenJobs + 1
    \/ \E j \in JobIds : TaskStart(j)
    \/ \E j \in JobIds, res \in ListingResults : ListingReturns(j, res)
    \/ \E j \in JobIds, res \in DownloadResults : DownloadReturns(j, res)
    \/ \E j \in JobIds, x \in Outputs, n \in {0, NumFrames} :
          CountMessages(j, x, n)
    \/ \E j \in JobIds, x \in Encoded, res \in {"ok", "raised", "full"} :
          WriteFrame(j, x, res)
    \/ \E j \in JobIds, x \in Encoded, rc \in {0, 1}, res \in {"ok", "full"} :
          EncoderExits(j, x, rc, res)
    \/ \E j \in JobIds, raised \in BOOLEAN : ImuIterate(j, raised)
    \/ \E j \in JobIds : ImuDump(j)
    \/ \E j \in JobIds : GatherReturns(j)
    \/ \E l \in ListenerIds, j \in JobIds : job_events(l, j)
    \/ \E l \in ListenerIds : StreamEvent(l)
    \/ \E l \in ListenerIds : StreamHeartbeat(l)

Spec == Init /\ [][Next]_vars

\* SpecRestart: up to MaxJobs jobs, one after the other, for a recording
\* that has frames on the rgb and depth channels and no message on the imu
\* channel; the storage answers, the encoders write little to stderr and no
\* client reads the progress stream
NoImuCount(x) == IF x = "imu" THEN 0 ELSE NumFrames

NextRestart ==
    \/ \E r \in Recordings : start_processing(r)
    \/ \E j \in JobIds : TaskStart(j)
    \/ \E j \in JobIds : ListingReturns(j, "ok")
    \/ \E j \in JobIds : DownloadReturns(j, "ok")
    \/ \E j \in JobIds, x \in Outputs : CountMessages(j, x, NoImuCount(x))
    \/ \E j \in JobIds, x \in Encoded, res \in {"ok", "raised"} :
          WriteFrame(j, x, res)
    \/ \E j \in JobIds, x \in Encoded, rc \in {0, 1} :
          EncoderExits(j, x, rc, "ok")
    \/ \E j \in JobIds : GatherReturns(j)

SpecRestart == Init /\ [][NextRestart]_vars

\* SpecResume: up to MaxJobs jobs, one after the other, for a recording whose
\* imu channel may be empty, and one client that follows the first job; the
\* storage answers and the encoders succeed
NextResume ==
    \/ \E r \in Recordings : start_processing(r)
    \/ \E j \in JobIds : TaskStart(j)
    \/ \E j \in JobIds : ListingReturns(j, "ok")
    \/ \E j \in JobIds : DownloadReturns(j, "ok")
    \/ \E j \in JobIds, x \in Outputs, n \in {0, NumFrames} :
          CountMessages(j, x, IF x = "imu" THEN n ELSE NumFrames)
    \/ \E j \in JobIds, x \in Encoded : WriteFrame(j, x, "ok")
    \/ \E j \in JobIds, x \in Encoded : EncoderExits(j, x, 0, "ok")
    \/ \E j \in JobIds : ImuIterate(j, FALSE)
    \/ \E j \in JobIds : ImuDump(j)
    \/ \E j \in JobIds : GatherReturns(j)
    \/ job_events(1, 1)
    \/ StreamEvent(1)
    \/ StreamHeartbeat(1)

SpecResume == Init /\ [][NextResume]_vars

\* SpecDelete: up to MaxJobs jobs, one after the other, for a recording that
\* converts without error, and an operator who removes one output file of a
\* converted recording while no job runs for it
DeleteOutput(r, o) ==
    /\ r \notin DOMAIN active_recordings
    /\ \A x \in Outputs : Exists(r, x)
    /\ files' = [files EXCEPT ![r][o] = "absent"]
    /\ UNCHANGED <<jobs, active_recordings, events, task, thr, gexc, mcap,
                   listeners, emitted, nextJob>>
    /\ Quiet
    /\ UNCHANGED offline

NextDelete ==
    \/ \E r \in Recordings : start_processing(r)
    \/ \E j \in JobIds : TaskStart(j)
    \/ \E j \in JobIds : ListingReturns(j, "ok")
    \/ \E j \in JobIds : DownloadReturns(j, "ok")
    \/ \E j \in JobIds, x \in Outputs : CountMessages(j, x, NumFrames)
    \/ \E j \in JobIds, x \in Encoded : WriteFrame(j, x, "ok")
    \/ \E j \in JobIds, x \in Encoded : EncoderExits(j, x, 0, "ok")
    \/ \E j \in JobIds : ImuIterate(j, FALSE)
    \/ \E j \in JobIds : ImuDump(j)
    \/ \E j \in JobIds : GatherReturns(j)
    \/ \E r \in Recordings, o \in Outputs : DeleteOutput(r, o)

SpecDelete == Init /\ [][NextDelete]_vars

\* FairSpec: Spec with the scheduling the runtime gives: the event loop runs
\* every ready coroutine, the operating system runs every thread that is not
\* blocked, the storage answers and an encoder that is not blocked exits.
\* Nothing makes a client send a request or read its stream.
Fairness ==
    /\ \A j \in JobIds : WF_vars(TaskStart(j))
    /\ \A j \in JobIds : WF_vars(\E res \in ListingResults : ListingReturns(j, res))
    /\ \A j \in JobIds : WF_vars(\E res \in DownloadResults : DownloadReturns(j, res))
    /\ \A j \in JobIds, x \in Outputs :
          WF_vars(\E n \in {0, NumFrames} : CountMessages(j, x, n))
    /\ \A j \in JobIds, x \in Encoded :
          WF_vars(\E res \in {"ok", "raised", "full"} : WriteFrame(j, x, res))
    /\ \A j \in JobIds, x \in Encoded :
          WF_vars(\E rc \in {0, 1}, res \in {"ok", "full"} :
                     EncoderExits(j, x, rc, res))
    /\ \A j \in JobIds : WF_vars(\E raised \in BOOLEAN : ImuIterate(j, raised))
    /\ \A j \in JobIds : WF_vars(ImuDump(j))
    /\ \A j \in JobIds : WF_vars(GatherReturns(j))

FairSpec == Spec /\ Fairness

\* ==== the claims =========================================================
\* vocabulary of the claims, stated without the registry's own bookkeeping
AllOutputsPresent(r) == \A o \in Outputs : files[r][o] # "absent"

NonTerminal(j) == Created(j) /\ task[j].pc # "finished"

NonTerminalJobs(r) ==
    {j \in JobIds : NonTerminal(j) /\ task[j].recording_id = r}

Answered(r) == resp.status # "none" /\ resp.recording_id = r

HasStage(seq, s) == \E k \in 1..Len(seq) : seq[k].stage = s

EndedWith(j, s) == task[j].pc = "finished" /\ HasStage(emitted[j], s)

\* C1: at most one job that is neither done nor failed exists per
\* recording, and every request answered while such a job exists (the one
\* that created it and all that arrive before it finishes) carries the id
\* of that one job.
C1_SingleFlight ==
    \A r \in Recordings :
        /\ Cardinality(NonTerminalJobs(r)) <= 1
        /\ Answered(r) /\ NonTerminalJobs(r) # {}
              => resp.job_id \in NonTerminalJobs(r)

\* C2: a request for a recording that has a running job is answered
\* "processing" with the id of that running job, and there is still only
\* that job.
C2_JoinsRunningJob ==
    \A r \in Recordings : \A j \in NonTerminalJobs(r) :
        Answered(r) =>
            /\ resp.status = "processing"
            /\ resp.job_id = j
            /\ NonTerminalJobs(r) = {j}

\* C3: a request for a recording whose three outputs are all present is
\* answered "ready" at once, without a job id, and the step creates no job,
\* adds no entry to the dedup map and starts no background task.
C3_ReadyShortCircuit ==
    [][\A r \in Recordings :
          AllOutputsPresent(r) /\ resp'.status # "none"
                               /\ resp'.recording_id = r
          => /\ resp'.status = "ready"
             /\ resp'.job_id = NoJob
             /\ UNCHANGED <<jobs, active_recordings, task, thr, events,
                            nextJob>>]_vars

C3_Witness ==
    \E r \in Recordings :
        Answered(r) /\ AllOutputsPresent(r) /\ resp.status = "ready"

\* C4: a job becomes terminal once and stays so, and from the moment it is
\* terminal it is no longer in the job table, so that job_events answers 404
\* for its id, whether or not a listener drained its events.
C4_TerminalJobRetired ==
    [][\A j \in JobIds :
          /\ task[j].pc = "finished" => task'[j].pc = "finished"
          /\ (j \in DOMAIN jobs /\ j \in DOMAIN jobs' /\ jobs[j].done)
                => jobs'[j].done
          /\ task'[j].pc = "finished" => j \notin DOMAIN jobs']_vars

\* C5: every listener that was attached when its job became terminal gets
\* exactly one terminal event and its stream ends with it: once the job is
\* terminal such a listener has either received its terminal event and is
\* closed, or a terminal event is still in the queue for it.
C5_EachListenerGetsTerminal ==
    \A l \in ListenerIds :
        LET L == listeners[l] IN
        (L.st # "idle" /\ L.early /\ task[L.job].pc = "finished") =>
            \/ L.st = "closed" /\ L.term = 1
            \/ L.st = "open" /\ L.term = 0
                  /\ \E k \in 1..Len(events[L.job]) :
                        IsTerminal(events[L.job][k])

\* C6: exactly one terminal-stage event is placed in a job's queue over its
\* lifetime: one "error" and no "done" for a failed job, one "done" and no
\* "error" for a successful one.
C6_OneTerminalEvent ==
    \A j \in JobIds :
        /\ Len(emitted[j]) <= 1
        /\ task[j].pc = "finished" => Len(emitted[j]) = 1

\* C7: when an extractor of a job fails, gather keeps the error of the
\* first extractor that failed, and the job ends with exactly one error
\* event that carries this error and with no done event, also when other
\* extractors succeeded.
C7_FirstFailureEndsJob ==
    [][\A j \in JobIds :
          /\ \A x \in Outputs :
                ((\A y \in Outputs : thr[j][y].pc # "failed")
                    /\ thr'[j][x].pc = "failed")
                => gexc'[j] = thr'[j][x].exc /\ gexc'[j] # NoExc
          /\ gexc[j] # NoExc => gexc'[j] = gexc[j]
          /\ (task[j].pc = "gather" /\ task'[j].pc = "finished"
                /\ \E x \in Outputs : thr[j][x].pc = "failed")
             => /\ emitted'[j] = <<Event("error", gexc[j])>>
                /\ events'[j] = events[j] \o <<Event("error", gexc[j])>>
                /\ gexc[j] # NoExc]_vars

C7_Witness ==
    \E j \in JobIds :
        /\ EndedWith(j, "error")
        /\ \E x, y \in Outputs :
              /\ thr[j][x].pc = "failed" /\ emitted[j][1].detail = thr[j][x].exc
              /\ thr[j][y].pc = "ok"

\* C8: after a job for a recording ended with an error, and until a later
\* job for it ended with done, no request for that recording is answered
\* "ready".
FailedLast(r) ==
    \E j \in JobIds :
        /\ task[j].recording_id = r
        /\ EndedWith(j, "error")
        /\ ~\E k \in JobIds : k > j /\ task[k].recording_id = r
                                    /\ EndedWith(k, "done")

C8_FailedRunNotReady ==
    \A r \in Recordings :
        Answered(r) /\ FailedLast(r) => resp.status # "ready"

\* C9: no two extractor executions have the same output file of a recording
\* open for writing at the same time.
Writing(j, x) ==
    /\ x \in Encoded
    /\ thr[j][x].pc \in {"write", "wait", "blocked"}
    /\ thr[j][x].i > 0

C9_SingleWriter ==
    \A r \in Recordings : \A x \in Outputs :
        Cardinality({j \in JobIds : task[j].recording_id = r
                                     /\ Writing(j, x)}) <= 1

\* C10: under fair scheduling every created job ends (done or error) and
\* its recording leaves the dedup map, whether or not a listener reads.
Retired(j) ==
    /\ task[j].pc = "finished"
    /\ \A r \in DOMAIN active_recordings : active_recordings[r] # j

C10_EveryJobEnds == \A j \in JobIds : Created(j) ~> Retired(j)

\* C11: once a terminal event of a job is in its queue the job's recording
\* is out of the dedup map; a request for the recording that arrives then,
\* with an output missing, is answered with a job created by that very
\* request; and the queue of a job is never cut short under a listener: the
\* terminal step only appends to it and detaches nobody, events leave it
\* only from its head, and an open listener stays open until it has taken a
\* terminal event.
IsPrefix(s, t) == Len(s) <= Len(t) /\ SubSeq(t, 1, Len(s)) = s

C11_RetiredFromDedupKeepsQueue ==
    [][/\ \A j \in JobIds :
            emitted'[j] # << >> =>
                \A r \in DOMAIN active_recordings' : active_recordings'[r] # j
       /\ \A r \in Recordings :
            (/\ resp'.status # "none" /\ resp'.recording_id = r
             /\ \E j \in JobIds : task[j].recording_id = r
             /\ \A j \in JobIds :
                   task[j].recording_id = r => emitted[j] # << >>
             /\ ~AllOutputsPresent(r))
            => /\ resp'.status = "processing"
               /\ resp'.job_id \in JobIds
               /\ ~Created(resp'.job_id)
               /\ task'[resp'.job_id] = [pc |-> "created", recording_id |-> r]
               /\ active_recordings'[r] = resp'.job_id
       /\ \A j \in JobIds :
            /\ (emitted[j] = << >> /\ emitted'[j] # << >>)
                  => IsPrefix(events[j], events'[j]) /\ listeners' = listeners
            /\ \/ IsPrefix(events[j], events'[j])
               \/ events[j] # << >> /\ events'[j] = Tail(events[j])
       /\ \A l \in ListenerIds :
            listeners[l].st = "open" =>
               \/ listeners'[l] = listeners[l]
               \/ /\ listeners'[l].st = "closed"
                  /\ IsTerminal(Head(events[listeners[l].job]))
                  /\ events'[listeners[l].job] = Tail(events[listeners[l].job])
      ]_vars

\* a client that attached to job 1 while it ran has read its terminal event,
\* and a later request has been answered with a second job
C11_Witness ==
    /\ listeners[1].st = "closed" /\ listeners[1].early
    /\ listeners[1].job = 1 /\ listeners[1].term = 1
    /\ resp.status = "processing" /\ resp.job_id = 2

\* C12: a pipeline run is reported done or failed only after every extractor
\* it launched has finished: no extractor thread of a finished job is still
\* counting, writing, waiting for its encoder or blocked.
Finished(t) == t.pc \in {"idle", "ok", "failed"}

C12_RunWaitsForExtractors ==
    \A j \in JobIds :
        task[j].pc = "finished" => \A x \in Outputs : Finished(thr[j][x])

\* C13: a job launches only the extractors whose output file is absent, and
\* an output file that an earlier run completed is never written again.
C13_OnlyMissingExtractorsRun ==
    [][\A j \in JobIds : \A x \in Outputs :
          LET r == task[j].recording_id IN
          /\ (thr[j][x].pc = "idle" /\ thr'[j][x].pc # "idle")
                => files[r][x] = "absent"
          /\ (Created(j) /\ files[r][x] = "complete")
                => files'[r][x] = "complete"]_vars

\* C14: process_one treats an output as needed exactly when it is absent
\* from the listing snapshot and from the cache directory; when it submits
\* extractors (an MCAP is cached, or a non-empty one is listed and its
\* download succeeds) it submits exactly those of the needed outputs, only
\* submitted extractors run, and otherwise it submits none; when no output
\* is needed it returns at once and leaves the files, the MCAP and the
\* store as they are.
C14_NeededOnly ==
    [][\A r \in Recordings :
          /\ (pre.pc = "idle" /\ pre'.pc # "idle") =>
                 /\ pre'.need = {x \in Outputs : x \notin pre'.listing
                                                 /\ files[r][x] = "absent"}
                 /\ pre'.need = {} =>
                       /\ pre'.pc = "returned"
                       /\ UNCHANGED <<files, mcap>>
                       /\ pre'.launched = {} /\ pre'.uploaded = {}
          /\ pre'.need = pre.need \/ pre.pc = "idle"
          /\ pre'.pc = "pool" => pre'.launched = pre'.need
          /\ pre'.launched \in {{}, pre'.need}
          /\ pre'.running \subseteq pre'.launched
          /\ \A x \in Outputs :
                files'[r][x] # files[r][x] => x \in pre.running
          /\ (pre'.launched = {} /\ pre'.need # {}) =>
                 \/ pre'.pc \in {"downloading", "raised"}
                 \/ pre'.pc = "returned" /\ mcap'[r] = "absent"
                       /\ pre'.mcap_listed # "ok"
      ]_vars

\* the extractors of a proper, non-empty part of the outputs are submitted:
\* one output is in the listing only, one in the cache directory only
C14_Witness ==
    /\ pre.pc = "pool" /\ pre.launched = {"depth"}
    /\ "rgb" \in pre.listing /\ files["recA"]["rgb"] = "absent"
    /\ "imu" \notin pre.listing /\ files["recA"]["imu"] # "absent"

\* C14 as first stated: whenever process_one is past its checks, exactly the
\* extractors of the needed outputs have been launched.
C14_LaunchesAllNeeded ==
    pre.pc \in {"pool", "returned", "raised"} => pre.launched = pre.need

\* C15: in the step in which a job ends with done all three outputs of its
\* recording exist and the completeness check holds; a request for a
\* recording that had a job end with done is answered "ready" exactly when
\* no output is missing; and when one output of a complete recording is
\* removed, the completeness check fails, that output is the only one
\* missing, and it is the only one the pre-processor's check (with no
\* output in the store) calls needed.
Missing(r) == {x \in Outputs : files[r][x] = "absent"}

C15_CompleteThenExactlyOneMissing ==
    [][\A r \in Recordings :
          /\ \A j \in JobIds :
                (task[j].recording_id = r /\ task[j].pc # "finished"
                   /\ task'[j].pc = "finished"
                   /\ HasStage(emitted'[j], "done"))
                => Missing(r)' = {} /\ is_processed(r)'
          /\ (resp'.status # "none" /\ resp'.recording_id = r
                 /\ \E j \in JobIds : task[j].recording_id = r
                                        /\ EndedWith(j, "done"))
                => (resp'.status = "ready" <=> Missing(r) = {})
          /\ \A o \in Outputs :
                (Missing(r) = {} /\ files'[r][o] = "absent")
                => /\ ~is_processed(r)'
                   /\ Missing(r)' = {o}
                   /\ Need(r, {})' = {o}
      ]_vars

\* a converted recording lost its imu.json, and the next request was
\* answered with a new job
C15_Witness ==
    /\ EndedWith(1, "done")
    /\ Missing("recA") = {"imu"}
    /\ resp.status = "processing" /\ resp.job_id = 2

\* C16: a request bytes=start-end on a file of size S, with start given and
\* 0 <= start <= S-1 and end left out or end >= start, is answered 206; with
\* E the end clamped to S-1 (S-1 when left out), Content-Length is the text
\* of E - start + 1, Content-Range is "bytes start-E/S" and the body is the
\* bytes start..E of the file; bytes=0- sends all S bytes and bytes=100-199
\* on a 1000-byte file sends exactly 100 bytes.
C16_RangeAnswer ==
    (/\ rng.pc = "answered"
     /\ rng.start.given /\ rng.start.n <= rng.file_size - 1
     /\ ~rng.end.given \/ rng.end.n >= rng.start.n)
    => LET S == rng.file_size
           start == rng.start.n
           E == IF ~rng.end.given \/ rng.end.n > S - 1 THEN S - 1
                ELSE rng.end.n
           a == rng.answer
       IN /\ a.status = 206
          /\ a.content_length = Str(E - start + 1)
          /\ a.content_range = BytesSp \o Str(start) \o <<"-">> \o Str(E)
                                   \o <<"/">> \o Str(S)
          /\ Len(a.body) = E - start + 1
          /\ \A k \in 1..Len(a.body) : a.body[k] = (start + k - 1) % 256
          /\ (start = 0 /\ ~rng.end.given) => Len(a.body) = S
          /\ (rng.start = Given(100) /\ rng.end = Given(199) /\ S = 1000)
                => Len(a.body) = 100

\* a range whose end lies beyond the file was answered
C16_Witness ==
    /\ rng.pc = "answered" /\ rng.file_size = 12
    /\ rng.start = Given(10) /\ rng.end = Given(13)
    /\ Len(rng.answer.body) = 2

\* C17: for a downsample factor K >= 1 and M >= 1 messages, process_imu
\* keeps exactly the messages at the 0-based positions divisible by K, in
\* order; sample_count is ceil(M / K) and every series has that length; and
\* the times are rebased to the first kept message, so the first one is 0.
C17_Downsample ==
    imus.pc = "written" =>
        LET M == Len(imus.msgs)
            K == imus.downsample
            n == (M + K - 1) \div K
        IN /\ M >= 1 /\ K >= 1
           /\ imus.sample_count = n
           /\ Len(imus.timestamps) = n /\ Len(imus.samples) = n
           /\ \A h \in 1..n : imus.samples[h] = (h - 1) * K
           /\ imus.timestamps[1] = 0
           /\ \A h \in 1..n :
                 imus.timestamps[h] =
                    Round4(imus.msgs[(h - 1) * K + 1] - imus.msgs[1])

\* three messages, the first not at time 0, halved to two samples
C17_Witness ==
    /\ imus.pc = "written" /\ imus.downsample = 2
    /\ imus.msgs = <<120000, 260000, 260000>>
    /\ imus.sample_count = 2 /\ imus.timestamps = <<0, 1>>

\* C18: on a container with no readable summary, iter_messages over a topic
\* ends without raising, also when the file ends inside a record; what it
\* yields is a prefix of the topic's messages in file order (ascending, so
\* without duplicates, and of that topic only); count_messages returns the
\* length of that prefix, and the fallback statistics count the messages of
\* the same readable part of the file over all its topics.
TopicMessages(c, topic) == OnTopics(c, {topic}, Len(c.msgs))

RECURSIVE SumOver(_, _)
SumOver(S, c) ==
    IF S = {} THEN 0
    ELSE LET t == CHOOSE x \in S : TRUE
         IN Len(iter_messages(c, t).yielded) + SumOver(S \ {t}, c)

C18_ForwardScanPrefix ==
    (rd.pc # "closed" /\ ~rd.file.indexed) =>
        LET c == rd.file
            y == rd.iter.yielded
        IN /\ ~rd.iter.raised
           /\ IsPrefix(y, TopicMessages(c, rd.topic))
           /\ \A k \in 1..Len(y) : TopicOf(c, y[k]) = rd.topic
           /\ \A k \in 1..(Len(y) - 1) : y[k] < y[k + 1]
           /\ rd.count = Len(y)
           /\ rd.pc = "described" => rd.message_count = SumOver(Topics, c)

\* a file cut inside a record, after a message of the topic that was read
\* and before another one
C18_Witness ==
    /\ rd.pc = "described" /\ ~rd.file.indexed /\ rd.file.torn
    /\ rd.file.lib = "stream"
    /\ Len(rd.iter.yielded) = 1 /\ rd.count = 1
    /\ Len(TopicMessages(rd.file, rd.topic)) = 2
    /\ rd.message_count = 2

\* C19: on a container with a readable summary, count_messages of a topic
\* is the number of messages iter_messages yields for it, whether no
\* channel, one channel or several channel ids carry the topic.
C19_CountEqualsIteration ==
    (rd.pc # "closed" /\ rd.file.indexed) =>
        rd.count = Len(rd.iter.yielded)

\* C20: an extractor whose channel has zero messages raises its non-empty
\* "No ... messages found in MCAP" error straight from the count: it has
\* written no frame, no encoder was started and no output file changes in
\* that step; gather keeps the first failure it is handed, and the step that
\* ends the job queues exactly one error event, whose detail is that first
\* failure: this extractor's message unless another extractor of the job
\* failed before it.
RaisesOnZero(j, x) ==
    /\ thr[j][x].pc = "count"
    /\ thr'[j][x].pc = "failed"

C21_ProgressMonotone ==
    prg.pc # "idle" =>
        /\ \A k \in 1..Len(prg.out) :
              /\ Leq(Fraction(0, 1, FALSE), prg.out[k])
              /\ Leq(prg.out[k], Fraction(1, 1, FALSE))
              /\ prg.out[k].num = prg.out[k].den => prg.out[k].after
        /\ \A k \in 1..(Len(prg.out) - 1) : Leq(prg.out[k], prg.out[k + 1])

\* C22: in the frame _colorize_depth_frame returns, every pixel whose raw
\* depth is 0, below 100 mm or above 1000 mm is black, whatever its
\* neighbours hold.
NoReturn(d) == d = 0 \/ d < MIN_DEPTH_MM \/ d > MAX_DEPTH_MM

C22_InvalidPixelsBlack ==
    dep.pc = "returned" =>
        \A p \in Pixels : NoReturn(dep.depth_raw[p]) => dep.colored[p] = Black

\* C23: once a done or error event has been put in a job's queue, no step
\* puts a further event in that queue.
C23_NothingAfterTerminal ==
    [][\A j \in JobIds :
          emitted[j] # << >> => Len(events'[j]) <= Len(events[j])]_vars

\* C24: every recording in the dedup map maps to a job that is in the job
\* table with that recording and done = FALSE; and a job whose background
\* task has not finalized yet is still in the table, not done, and is the
\* job its recording maps to (no listener removes it before it is terminal).
C24_DedupPointsToLiveJob ==
    /\ \A r \in DOMAIN active_recordings :
          LET j == active_recordings[r] IN
          /\ j \in DOMAIN jobs
          /\ jobs[j].recording_id = r
          /\ ~jobs[j].done
    /\ \A j \in JobIds :
          NonTerminal(j) =>
            /\ j \in DOMAIN jobs
            /\ ~jobs[j].done
            /\ task[j].recording_id \in DOMAIN active_recordings
            /\ active_recordings[task[j].recording_id] = j

\* a listener has drained the queue of a job whose extractors are running
C24_Witness ==
    \E l \in ListenerIds :
        LET j == listeners[l].job IN
        /\ listeners[l].st = "open"
        /\ task[j].pc = "gather"
        /\ events[j] = << >>
        /\ j \in DOMAIN jobs
        /\ active_recordings[task[j].recording_id] = j

\* C25: when process_one has returned normally for a recording whose
\* listing holds a non-empty MCAP, each of the three outputs is in the
\* store: it was in the listing or process_one uploaded it.
Stored == pre.listing \cup pre.uploaded

C25_ReturnedMeansStored ==
    (pre.pc = "returned" /\ pre.mcap_listed = "ok") => Stored = Outputs

\* C26: when process_rgb or process_depth has returned or raised after it
\* spawned its encoder, the encoder's input pipe is closed and the encoder
\* has been waited on.
C26_ClosedAndWaited ==
    enc.pc \in {"returned", "raised"} =>
        enc.stdin = "closed" /\ enc.proc = "reaped"

\* C27: when process_one raises for a recording the poll loop goes on, in
\* the same cycle, with the next folder of the listing; the recording is
\* put in the failed set for good, and no recording of the failed set is
\* handed to process_one again: process_one is called at most once for a
\* recording after which it raised.
Raises(folder) ==
    /\ poll.pc = "process_one" /\ poll.k = folder
    /\ folder \in poll'.raised /\ folder \notin poll.raised

C27_FailureIsContained ==
    [][
        /\ \A f \in Folders :
              Raises(f) =>
                /\ poll'.pc = "folder"
                /\ poll'.k = f + 1
                /\ poll'.cycle = poll.cycle
                /\ poll'.called = poll.called
                /\ f \in poll'.failed
        /\ poll.failed \subseteq poll'.failed
        /\ \A g \in poll.raised : poll'.calls[g] = poll.calls[g]
        /\ (poll.pc = "folder" /\ poll'.pc = "process_one") =>
              poll.k \notin poll.raised
      ]_vars

\* in one cycle process_one raised for the first folder and was then called
\* for the second; in the next cycle the first is left out
C27_Witness ==
    /\ poll.cycle = 2
    /\ poll.failed = {1} /\ poll.raised = {1}
    /\ poll.calls[1] = 1 /\ poll.calls[2] = 2
    /\ poll.called = {2}
    /\ poll.pc = "sleep"

\* C28: every 206 answer of _range_response declares as Content-Length the
\* text of a non-negative number, the number of bytes it streams, and its
\* Content-Range is "bytes s-e/S" with 0 <= s <= e <= S - 1, also when the
\* start lies at or beyond the end of the file, when start > end, and for
\* the open-start form bytes=-N.
C28_LengthAndBounds ==
    (rng.pc = "answered" /\ rng.answer.status = 206) =>
        LET S == rng.file_size
            a == rng.answer
        IN /\ a.content_length = Str(Len(a.body))
           /\ \E st, e \in 0..(S - 1) :
                 /\ st <= e
                 /\ a.content_range = BytesSp \o Str(st) \o <<"-">> \o Str(e)
                                          \o <<"/">> \o Str(S)

====
